---- MODULE Spec2Model ----
(***************************************************************************)
(* Model of the AI CMI Statement Extractor.                                *)
(*                                                                         *)
(* The repository holds two versions of the application shell:             *)
(*   - src/App.tsx: a file picker only, no type check, no reset;           *)
(*   - src/components/DataTable.tsx (lines 41-323): picker and drop zone   *)
(*     behind processFile, with a type check and resetState.               *)
(* The variable shell says which of the two is running; it never changes.  *)
(* src/unnamed/part_000 is the extraction client (extractDataFromFile).    *)
(*                                                                         *)
(* A handler runs to completion and React re-renders before the next       *)
(* event is dispatched, so each handler (with its render) is one action.   *)
(* A control can fire an event only when the render shows it enabled.      *)
(***************************************************************************)
EXTENDS Integers, Sequences, FiniteSets, TLC

VARIABLES
    shell,      \* "App" (src/App.tsx) or "AppDnD" (src/components/DataTable.tsx)
    data,       \* useState<StatementRow[] | null>
    loading,    \* useState(false)
    error,      \* useState<string | null>
    fileName,   \* useState<string | null>
    isDragging, \* useState(false), AppDnD only
    inflight,   \* FileReader reads and model calls that have not completed
    seq,        \* number of flows started so far
    current,    \* history: id of the latest flow, 0 after a reset
    modelCalls, \* history: id -> number of generateContent invocations
    readState,  \* history: id -> "pending" | "ok" | "failed"
    lastEvent,  \* history: the handler or callback that ran last
    lastOutcome,\* history: how the last generateContent call settled
    lastResult, \* history: what the last extractDataFromFile call produced
    sheet,      \* the worksheet handed to XLSX.writeFile by the last export
    exports     \* history: exports of the rows now in data: "none", "once", "again"

vars == <<shell, data, loading, error, fileName, isDragging, inflight, seq,
          current, modelCalls, readState, lastEvent, lastOutcome, lastResult,
          sheet, exports>>

----------------------------------------------------------------------------
(* Bounds *)

MaxSubmits == 3     \* flows started in one behaviour
MaxRows == 2        \* rows in one model response

----------------------------------------------------------------------------
(* Values *)

\* string | null and StatementRow[] | null
NullStr == [set |-> FALSE, msg |-> <<>>]
Str(m) == [set |-> TRUE, msg |-> m]
NullData == [set |-> FALSE, rows |-> <<>>]
Rows(r) == [set |-> TRUE, rows |-> r]
NullName == "<null>"

\* Files the user can select or drop: name and declared MIME type.
Files ==
    { [name |-> "releve.pdf", type |-> "application/pdf"],
      [name |-> "scan.jpg",   type |-> "image/jpeg"],
      [name |-> "notes.txt",  type |-> "text/plain"] }

acceptedTypes == {"application/pdf", "image/png", "image/jpeg", "image/jpg"}

\* Amount strings are sequences of characters, so that the export's
\* replace/parseFloat chain is computed and not assumed.
Digits == {"0", "1", "2", "3", "4", "5", "6", "7", "8", "9"}
DigitVal(c) ==
    CASE c = "0" -> 0 [] c = "1" -> 1 [] c = "2" -> 2 [] c = "3" -> 3
      [] c = "4" -> 4 [] c = "5" -> 5 [] c = "6" -> 6 [] c = "7" -> 7
      [] c = "8" -> 8 [] c = "9" -> 9

Empty == <<>>
Amt_1dot234_56 == <<"1", ".", "2", "3", "4", ",", "5", "6">>
Amt_1sp234_56 == <<"1", " ", "2", "3", "4", ",", "5", "6">>

\* Rows the model can return: a credit row and a debit row of the prompt's
\* rule table, with the two thousands separators a statement can carry.
RowTotalRemise ==
    [date |-> "05/03/2024", compteGeneral |-> "34210000",
     compteTier |-> "CMI12345", libelle |-> "TPE 0012345 TOTAL REMISE",
     debit |-> Empty, credit |-> Amt_1dot234_56]
RowSoldeNet ==
    [date |-> "06/03/2024", compteGeneral |-> "34210000",
     compteTier |-> "CMI12345", libelle |-> "TPE 0012345 SOLDE NET REMISE",
     debit |-> Amt_1sp234_56, credit |-> Empty]

RowSet == {RowTotalRemise, RowSoldeNet}

SeqsUpTo(S, n) == UNION { [1..k -> S] : k \in 0..n }
RowArrays == SeqsUpTo(RowSet, MaxRows)

----------------------------------------------------------------------------
(* Extraction client: src/unnamed/part_000 *)

\* Error messages are sequences of tokens; toLowerCase().includes('json')
\* is computed on the tokens.
EmptyResponseMsg ==
    <<"The AI returned an empty response.",
      "The document might be unreadable or not a CMI statement.">>
InvalidFormatMsg ==
    <<"The AI returned an invalid format.",
      "Please try a clearer image or a different file.">>
WrapperPrefix == <<"An error occurred while processing the statement:">>
UnknownMsg == <<"An unknown error occurred during AI processing.">>
\* what the runtime throws
SyntaxErrorMsg == <<"Unexpected", "token", "in", "JSON", "at position 1">>
TypeErrorMsg == <<"Cannot read properties of undefined (reading 'trim')">>
\* failures of the call itself
NetworkMsg == <<"Failed to fetch">>
ServiceJsonMsg == <<"Invalid", "JSON", "payload", "received">>
TransportMsgs == {NetworkMsg, ServiceJsonMsg}

toLowerCase(w) ==
    CASE w = "JSON" -> "json"
      [] w = "Unexpected" -> "unexpected"
      [] w = "Invalid" -> "invalid"
      [] OTHER -> w

includes(msg, needle) == \E i \in DOMAIN msg : toLowerCase(msg[i]) = needle

\* response.text: optional surrounding whitespace around nothing, around
\* text that is not JSON, or around the serialisation of a row array (the
\* responseSchema of the request constrains JSON output to an array of rows).
Text(ws, body, arr) == [ws |-> ws, body |-> body, arr |-> arr]
ResponseTexts ==
    { Text(ws, "empty", <<>>) : ws \in BOOLEAN }
      \cup { Text(FALSE, "notjson", <<>>) }
      \cup { Text(FALSE, "array", a) : a \in RowArrays }

trim(t) == [t EXCEPT !.ws = FALSE]
IsEmptyString(t) == t.body = "empty" /\ ~t.ws

\* JSON.parse: the value, or a SyntaxError (whitespace around a value is
\* allowed by the JSON grammar)
JSONparse(t) ==
    IF t.body = "array"
      THEN [threw |-> FALSE, value |-> t.arr, msg |-> <<>>]
      ELSE [threw |-> TRUE, value |-> <<>>, msg |-> SyntaxErrorMsg]

\* How ai.models.generateContent settles.
Outcome(kind, text, msg) == [kind |-> kind, text |-> text, msg |-> msg]
NoText == Text(FALSE, "empty", <<>>)
Outcomes ==
    { Outcome("text", t, <<>>) : t \in ResponseTexts }
      \cup { Outcome("undefinedText", NoText, <<>>) }
      \cup { Outcome("reject", NoText, m) : m \in TransportMsgs }
      \cup { Outcome("rejectNonError", NoText, <<>>) }

Thrown(isError, msg) == [threw |-> TRUE, isError |-> isError, msg |-> msg, value |-> <<>>]
Returned(v) == [threw |-> FALSE, isError |-> FALSE, msg |-> <<>>, value |-> v]

\* the body of the try block (lines 66-96)
extractTry(o) ==
    CASE o.kind = "reject" -> Thrown(TRUE, o.msg)
      [] o.kind = "rejectNonError" -> Thrown(FALSE, <<>>)
      [] o.kind = "undefinedText" -> Thrown(TRUE, TypeErrorMsg)
      [] OTHER ->
          LET jsonText == trim(o.text) IN
          IF IsEmptyString(jsonText)
            THEN Thrown(TRUE, EmptyResponseMsg)
            ELSE LET p == JSONparse(jsonText) IN
                 IF p.threw THEN Thrown(TRUE, p.msg) ELSE Returned(p.value)

\* the catch block (lines 98-107)
extractCatch(e) ==
    IF e.isError
      THEN IF includes(e.msg, "json")
             THEN Thrown(TRUE, InvalidFormatMsg)
             ELSE Thrown(TRUE, WrapperPrefix \o e.msg)
      ELSE Thrown(TRUE, UnknownMsg)

extractDataFromFile(o) ==
    LET r == extractTry(o) IN
    IF r.threw THEN extractCatch(r) ELSE r

----------------------------------------------------------------------------
(* Spreadsheet export: handleDownloadExcel, the same code in both shells *)

\* A JS number that parseFloat can produce from the characters above:
\* NaN, or num / 10^scale.
NaN == [nan |-> TRUE, num |-> 0, scale |-> 0]
Num(n, k) == [nan |-> FALSE, num |-> n, scale |-> k]

RECURSIVE Pow10(_)
Pow10(k) == IF k = 0 THEN 1 ELSE 10 * Pow10(k - 1)

\* numeric equality of two JS numbers (NaN equals nothing)
NumEq(a, b) ==
    /\ ~a.nan /\ ~b.nan
    /\ a.num * Pow10(b.scale) = b.num * Pow10(a.scale)

\* s.replace(/\./g, '')
replaceAllDots(s) == SelectSeq(s, LAMBDA c : c # ".")

\* s.replace(',', '.'): a string pattern replaces the first match only
replaceFirstComma(s) ==
    IF \E i \in DOMAIN s : s[i] = ","
      THEN LET i == CHOOSE j \in DOMAIN s :
                      s[j] = "," /\ \A k \in 1..(j - 1) : s[k] # ","
           IN [s EXCEPT ![i] = "."]
      ELSE s

\* length of the longest prefix of s, from position i, made of digits
RECURSIVE DigitRun(_, _)
DigitRun(s, i) ==
    IF i <= Len(s) /\ s[i] \in Digits THEN 1 + DigitRun(s, i + 1) ELSE 0

RECURSIVE LeadingSpaces(_, _)
LeadingSpaces(s, i) ==
    IF i <= Len(s) /\ s[i] = " " THEN 1 + LeadingSpaces(s, i + 1) ELSE 0

RECURSIVE DigitsValue(_, _, _)
DigitsValue(s, i, n) ==
    IF n = 0 THEN 0
    ELSE DigitsValue(s, i, n - 1) * 10 + DigitVal(s[i + n - 1])

\* parseFloat: skip leading white space, then the longest prefix that is a
\* decimal literal (digits, optionally a point and digits); NaN when there
\* is none.  Signs and exponents do not occur in the alphabet modelled.
parseFloat(s) ==
    LET start == 1 + LeadingSpaces(s, 1)
        ni == DigitRun(s, start)
        hasPoint == start + ni <= Len(s) /\ s[start + ni] = "."
        nf == IF hasPoint THEN DigitRun(s, start + ni + 1) ELSE 0
    IN IF ni = 0 /\ nf = 0 THEN NaN
       ELSE Num(DigitsValue(s, start, ni) * Pow10(nf)
                  + DigitsValue(s, start + ni + 1, nf), nf)

\* A worksheet cell.  present = FALSE: the sheet has no cell at that address.
NoCell == [present |-> FALSE, t |-> "", s |-> "", n |-> NaN, z |-> ""]
StrCell(v) == [present |-> TRUE, t |-> "s", s |-> v, n |-> NaN, z |-> ""]
NumCell(v) == [present |-> TRUE, t |-> "n", s |-> "", n |-> v, z |-> ""]

\* row.debit ? parseFloat(...) : 0
amountCell_zero(s) ==
    IF s # <<>>
      THEN NumCell(parseFloat(replaceFirstComma(replaceAllDots(s))))
      ELSE NumCell(Num(0, 0))

\* row.debit ? parseFloat(row.debit.replace(/\./g, '').replace(',', '.')) : null
\* followed by json_to_sheet, which writes no cell for null
amountCell(s) ==
    IF s # <<>>
      THEN NumCell(parseFloat(replaceFirstComma(replaceAllDots(s))))
      ELSE NoCell

\* data.map(row => ({...})) and json_to_sheet: one sheet row per object
exportRow(row) ==
    << StrCell(row.date), StrCell(row.compteGeneral), StrCell(row.compteTier),
       StrCell(row.libelle), amountCell(row.debit), amountCell(row.credit) >>

\* the rows are written last first
dataForExport_reversed(rows) ==
    [i \in 1..Len(rows) |-> exportRow(rows[Len(rows) + 1 - i])]

dataForExport(rows) == [i \in 1..Len(rows) |-> exportRow(rows[i])]

Header == <<"DATE", "COMPTE GENERAL", "COMPTE TIER", "LIBELLE", "DEBIT", "CREDIT">>
columnWidths == <<15, 20, 20, 80, 15, 15>>
NumberFormat == "#,##0.00"

\* the loop over rows range.s.r+1 .. range.e.r and columns E and F
formatCell(c) ==
    IF c.present THEN [c EXCEPT !.t = "n", !.z = NumberFormat] ELSE c

setNumberFormat(sheetRows) ==
    [i \in 1..Len(sheetRows) |->
        [j \in 1..6 |-> IF j \in {5, 6} THEN formatCell(sheetRows[i][j])
                        ELSE sheetRows[i][j]]]

NoSheet == [written |-> FALSE, header |-> <<>>, rows |-> <<>>, cols |-> <<>>]

worksheetOf(rows) ==
    [written |-> TRUE,
     header |-> IF Len(rows) = 0 THEN <<>> ELSE Header,
     rows |-> setNumberFormat(dataForExport(rows)),
     cols |-> columnWidths]

\* DataTable: {data.map((row, index) => <tr>...</tr>)}
DataTable(rows) ==
    [i \in 1..Len(rows) |->
        << rows[i].date, rows[i].compteGeneral, rows[i].compteTier,
           rows[i].libelle, rows[i].debit, rows[i].credit >>]

----------------------------------------------------------------------------
(* Application shell: src/App.tsx and src/components/DataTable.tsx *)

UnsupportedTypeMsg(type) ==
    <<"Unsupported file type:", type, "Please upload a PDF or image file.">>
NoDataMsg ==
    <<"No data could be extracted from the document.",
      "It might be empty or in an unsupported format.">>
ReadFailedMsg == <<"Failed to read the file. Please try again.">>

NoOutcome == Outcome("none", NoText, <<>>)
NoResult == [threw |-> FALSE, isError |-> FALSE, msg |-> <<>>, value |-> <<>>]

Request(id, type, phase) == [id |-> id, type |-> type, phase |-> phase]

Init ==
    /\ shell \in {"App", "AppDnD"}
    /\ data = NullData
    /\ loading = FALSE
    /\ error = NullStr
    /\ fileName = NullName
    /\ isDragging = FALSE
    /\ inflight = {}
    /\ seq = 0
    /\ current = 0
    /\ modelCalls = <<>>
    /\ readState = <<>>
    /\ lastEvent = "init"
    /\ lastOutcome = NoOutcome
    /\ lastResult = NoResult
    /\ sheet = NoSheet
    /\ exports = "none"

\* Which branch renderContent returns (AppDnD).  error and data are tested
\* for truthiness: no message is the empty string and an array is truthy.
renderContent ==
    IF loading THEN "loading"
    ELSE IF error.set THEN "error"
    ELSE IF data.set THEN "data"
    ELSE "dropzone"

\* the input stays enabled and the drop zone stays mounted
canSelectFile_always == TRUE

\* Can a file reach the shell?  App: <input disabled={loading}>, always
\* rendered.  AppDnD: the input and the drop zone exist only in the last
\* branch of renderContent.
canSelectFile ==
    IF shell = "App" THEN ~loading ELSE renderContent = "dropzone"

\* Is the "Download as Excel" button rendered?  App: {data && ...};
\* AppDnD: the data branch of renderContent.
canExport ==
    IF shell = "App" THEN data.set ELSE renderContent = "data"

\* a reset button also next to the spinner
canReset_whileLoading == shell = "AppDnD" /\ renderContent # "dropzone"

\* AppDnD: "Try Again" (error branch), "Process Another File" (data branch)
canReset == shell = "AppDnD" /\ renderContent \in {"error", "data"}

\* the previous rows are not cleared when a new flow starts
startFlow_keepData(file) ==
    /\ seq < MaxSubmits
    /\ data' = data
    /\ error' = NullStr
    /\ loading' = TRUE
    /\ fileName' = file.name
    /\ inflight' = inflight \cup {Request(seq + 1, file.type, "read")}
    /\ seq' = seq + 1
    /\ current' = seq + 1
    /\ modelCalls' = Append(modelCalls, 0)
    /\ readState' = Append(readState, "pending")
    /\ exports' = "none"

\* setData(null); setError(null); setLoading(true); setFileName(file.name);
\* new FileReader(); reader.readAsDataURL(file); handlers attached.
\* (The synchronous catch is not modelled: neither the constructor nor
\* readAsDataURL throws for a File taken from an input or a drop.)
startFlow(file) ==
    /\ seq < MaxSubmits
    /\ data' = NullData
    /\ error' = NullStr
    /\ loading' = TRUE
    /\ fileName' = file.name
    /\ inflight' = inflight \cup {Request(seq + 1, file.type, "read")}
    /\ seq' = seq + 1
    /\ current' = seq + 1
    /\ modelCalls' = Append(modelCalls, 0)
    /\ readState' = Append(readState, "pending")
    /\ exports' = "none"

\* src/App.tsx: handleFileChange
App_handleFileChange(file) ==
    /\ shell = "App"
    /\ canSelectFile
    /\ startFlow(file)
    /\ lastEvent' = "handleFileChange"
    /\ UNCHANGED <<shell, isDragging, lastOutcome, lastResult, sheet>>

\* src/components/DataTable.tsx: processFile
processFile(file) ==
    IF file.type \notin acceptedTypes
      THEN /\ error' = Str(UnsupportedTypeMsg(file.type))
           /\ UNCHANGED <<data, loading, fileName, inflight, seq, current,
                          modelCalls, readState, exports>>
      ELSE startFlow(file)

handleFileChange(file) ==
    /\ shell = "AppDnD"
    /\ canSelectFile
    /\ processFile(file)
    /\ lastEvent' = "handleFileChange"
    /\ UNCHANGED <<shell, isDragging, lastOutcome, lastResult, sheet>>

handleDrop(file) ==
    /\ shell = "AppDnD"
    /\ canSelectFile
    /\ isDragging' = FALSE
    /\ processFile(file)
    /\ lastEvent' = "handleDrop"
    /\ UNCHANGED <<shell, lastOutcome, lastResult, sheet>>

handleDragEnter ==
    /\ shell = "AppDnD"
    /\ canSelectFile
    /\ isDragging' = TRUE
    /\ lastEvent' = "handleDragEnter"
    /\ UNCHANGED <<shell, data, loading, error, fileName, inflight, seq,
                   current, modelCalls, readState, lastOutcome, lastResult, sheet,
                   exports>>

handleDragLeave ==
    /\ shell = "AppDnD"
    /\ canSelectFile
    /\ isDragging' = FALSE
    /\ lastEvent' = "handleDragLeave"
    /\ UNCHANGED <<shell, data, loading, error, fileName, inflight, seq,
                   current, modelCalls, readState, lastOutcome, lastResult, sheet,
                   exports>>

\* reader.onload up to the await: the payload is cut out of the data URL and
\* extractDataFromFile sends the one generateContent request.
reader_onload(r) ==
    /\ r \in inflight
    /\ r.phase = "read"
    /\ inflight' = (inflight \ {r}) \cup {Request(r.id, r.type, "call")}
    /\ modelCalls' = [modelCalls EXCEPT ![r.id] = @ + 1]
    /\ readState' = [readState EXCEPT ![r.id] = "ok"]
    /\ lastEvent' = "reader.onload"
    /\ UNCHANGED <<shell, data, loading, error, fileName, isDragging, seq,
                   current, lastOutcome, lastResult, sheet, exports>>

\* extracted.length >= 0
hasRows_orEmpty(extracted) == Len(extracted) >= 0

\* extracted && extracted.length > 0
hasRows(extracted) == Len(extracted) > 0

\* a failed extraction is sent again (once) instead of ending the flow
reader_onload_resume_autoRetry(r, o) ==
    /\ r \in inflight
    /\ r.phase = "call"
    /\ LET res == extractDataFromFile(o)
           retry == res.threw /\ modelCalls[r.id] < 2
       IN
       /\ IF res.threw
            THEN error' = Str(res.msg) /\ data' = data
            ELSE IF Len(res.value) > 0
                   THEN data' = Rows(res.value) /\ error' = error
                   ELSE error' = Str(NoDataMsg) /\ data' = data
       /\ lastResult' = res
       /\ inflight' = IF retry THEN inflight ELSE inflight \ {r}
       /\ modelCalls' = IF retry THEN [modelCalls EXCEPT ![r.id] = @ + 1]
                        ELSE modelCalls
    /\ lastOutcome' = o
    /\ loading' = FALSE
    /\ lastEvent' = "reader.onload resumed"
    /\ exports' = "none"
    /\ UNCHANGED <<shell, fileName, isDragging, seq, current, readState, sheet>>

\* reader.onload after the await: generateContent has settled with o.
reader_onload_resume(r, o) ==
    /\ r \in inflight
    /\ r.phase = "call"
    /\ LET res == extractDataFromFile(o) IN
       /\ IF res.threw
            THEN error' = Str(res.msg) /\ data' = data
            ELSE IF hasRows(res.value)
                   THEN data' = Rows(res.value) /\ error' = error
                   ELSE error' = Str(NoDataMsg) /\ data' = data
       /\ lastResult' = res
    /\ lastOutcome' = o
    /\ loading' = FALSE
    /\ inflight' = inflight \ {r}
    /\ lastEvent' = "reader.onload resumed"
    /\ exports' = "none"
    /\ UNCHANGED <<shell, fileName, isDragging, seq, current, modelCalls,
                   readState, sheet>>

\* setLoading(false) is missing from reader.onerror
reader_onerror_staysLoading(r) ==
    /\ r \in inflight
    /\ r.phase = "read"
    /\ error' = Str(ReadFailedMsg)
    /\ loading' = loading
    /\ inflight' = inflight \ {r}
    /\ readState' = [readState EXCEPT ![r.id] = "failed"]
    /\ lastEvent' = "reader.onerror"
    /\ UNCHANGED <<shell, data, fileName, isDragging, seq, current,
                   modelCalls, lastOutcome, lastResult, sheet, exports>>

reader_onerror(r) ==
    /\ r \in inflight
    /\ r.phase = "read"
    /\ error' = Str(ReadFailedMsg)
    /\ loading' = FALSE
    /\ inflight' = inflight \ {r}
    /\ readState' = [readState EXCEPT ![r.id] = "failed"]
    /\ lastEvent' = "reader.onerror"
    /\ UNCHANGED <<shell, data, fileName, isDragging, seq, current,
                   modelCalls, lastOutcome, lastResult, sheet, exports>>

\* setData(null) is missing from the reset
resetState_keepData ==
    /\ canReset
    /\ data' = data
    /\ error' = NullStr
    /\ fileName' = NullName
    /\ loading' = FALSE
    /\ current' = 0
    /\ lastEvent' = "resetState"
    /\ exports' = "none"
    /\ UNCHANGED <<shell, isDragging, inflight, seq, modelCalls, readState,
                   lastOutcome, lastResult, sheet>>

resetState ==
    /\ canReset
    /\ data' = NullData
    /\ error' = NullStr
    /\ fileName' = NullName
    /\ loading' = FALSE
    /\ current' = 0
    /\ lastEvent' = "resetState"
    /\ exports' = "none"
    /\ UNCHANGED <<shell, isDragging, inflight, seq, modelCalls, readState,
                   lastOutcome, lastResult, sheet>>

\* the amounts are normalised in the rows themselves before the export
handleDownloadExcel_inPlace ==
    /\ canExport
    /\ data.set
    /\ sheet' = worksheetOf(data.rows)
    /\ data' = Rows([i \in 1..Len(data.rows) |->
                  [data.rows[i] EXCEPT
                     !.debit = replaceFirstComma(replaceAllDots(@)),
                     !.credit = replaceFirstComma(replaceAllDots(@))]])
    /\ exports' = IF exports = "none" THEN "once" ELSE "again"
    /\ lastEvent' = "handleDownloadExcel"
    /\ UNCHANGED <<shell, loading, error, fileName, isDragging,
                   inflight, seq, current, modelCalls, readState,
                   lastOutcome, lastResult>>

handleDownloadExcel ==
    /\ canExport
    /\ data.set
    /\ sheet' = worksheetOf(data.rows)
    /\ exports' = IF exports = "none" THEN "once" ELSE "again"
    /\ lastEvent' = "handleDownloadExcel"
    /\ UNCHANGED <<shell, data, loading, error, fileName, isDragging,
                   inflight, seq, current, modelCalls, readState,
                   lastOutcome, lastResult>>

Next ==
    \/ \E file \in Files : App_handleFileChange(file)
    \/ \E file \in Files : handleFileChange(file)
    \/ \E file \in Files : handleDrop(file)
    \/ handleDragEnter
    \/ handleDragLeave
    \/ \E r \in inflight : reader_onload(r)
    \/ \E r \in inflight, o \in Outcomes : reader_onload_resume(r, o)
    \/ \E r \in inflight : reader_onerror(r)
    \/ resetState
    \/ handleDownloadExcel

Spec == Init /\ [][Next]_vars

\* The FileReader finishes every read (load or error) and generateContent
\* settles every call (the promise resolves or rejects); the browser then
\* runs the callback.  Nothing obliges the user to act.
ReadCompletes == \E r \in inflight : reader_onload(r) \/ reader_onerror(r)
CallCompletes ==
    \E r \in inflight, o \in Outcomes : reader_onload_resume(r, o)

LiveSpec ==
    Init /\ [][Next]_vars /\ WF_vars(ReadCompletes) /\ WF_vars(CallCompletes)

----------------------------------------------------------------------------
(* The states of the shell *)

Idle == ~loading /\ ~data.set /\ ~error.set
Loading == loading
Success == ~loading /\ data.set /\ ~error.set
Error == ~loading /\ error.set /\ ~data.set

UserEvents == {"handleFileChange", "handleDrop", "resetState"}
Callbacks == {"reader.onload", "reader.onload resumed", "reader.onerror"}

----------------------------------------------------------------------------
(* Claims *)

\* C1: a file whose declared MIME type is not on the allow-list never
\* reaches the file read or the extraction call, whichever entry point took
\* it: every read or call in flight is for an accepted type.
C1_UnsupportedNeverProcessed ==
    \A r \in inflight : r.type \in acceptedTypes

\* C2: the shell leaves Loading only into Success, and then the extraction
\* has just returned a non-empty row array which is now the data, or into
\* Error, in every other outcome (throw, empty result, failed read).
C2_LoadingExits ==
    [][Loading =>
         \/ Loading'
         \/ IF /\ lastEvent' = "reader.onload resumed"
               /\ ~lastResult'.threw
               /\ Len(lastResult'.value) > 0
              THEN Success' /\ data'.rows = lastResult'.value
              ELSE Error']_vars

C2_Witness ==
    /\ lastEvent = "reader.onload resumed"
    /\ Success
    /\ data.rows = lastResult.value

\* C3: at most one file read or model call is in flight at any time.
C3_AtMostOneInFlight == Cardinality(inflight) <= 1

C3_Witness == \E r \in inflight : r.id >= 2 /\ r.phase = "call"

\* C4 (as stated): nothing guards against the race between a flow in flight
\* and a newer selection or a reset: while a read or a call is in flight the
\* user can still select or drop a file, or reset.
C4_Unguarded == inflight # {} => (canSelectFile \/ canReset)

\* C4 (amended): an in-flight call is never aborted, but no selection, drop
\* or reset can happen while one is in flight, so every request in flight
\* belongs to the latest flow and the shell still shows the Loading state
\* that flow set: no stale response overwrites newer state.
C4_NoStaleCompletion ==
    \A r \in inflight :
        /\ r.id = current
        /\ Loading /\ ~data.set /\ ~error.set
        /\ ~canSelectFile /\ ~canReset

C4_Witness ==
    /\ lastEvent = "reader.onload resumed"
    /\ seq >= 2
    /\ current = seq
    /\ inflight = {}

\* C5: every flow invokes the model exactly once when its read succeeded and
\* not at all while the read is pending or when it failed; and once the
\* shell shows an error no request is left that could call the model again.
C5_OneModelCallPerFlow ==
    /\ \A id \in 1..seq :
          /\ readState[id] = "ok" => modelCalls[id] = 1
          /\ readState[id] \in {"pending", "failed"} => modelCalls[id] = 0
    /\ Error => inflight = {}

C5_Witness ==
    /\ Error
    /\ lastEvent = "reader.onload resumed"
    /\ \E id \in 1..seq : readState[id] = "failed"
    /\ \E id \in 1..seq : readState[id] = "ok" /\ modelCalls[id] = 1

\* C6: in Error, the message, the loading flag and the rows change only by
\* a user action (file selection or drop, reset), never by a callback.
C6_ErrorIsTerminal ==
    [][(Error /\ (error' # error \/ loading' # loading \/ data' # data))
          => lastEvent' \in UserEvents]_vars

C6_Witness ==
    /\ Error
    /\ lastEvent = "reader.onerror"
    /\ error.msg = ReadFailedMsg
    /\ inflight = {}

IsSuffix(suffix, msg) ==
    /\ Len(suffix) <= Len(msg)
    /\ SubSeq(msg, Len(msg) - Len(suffix) + 1, Len(msg)) = suffix

\* C7: extractDataFromFile reports each failure by its kind: an empty
\* response text with the empty-response message, text that is not JSON
\* with the invalid-format message, and any other failure of the call with
\* the underlying message in the generic wrapper, never as invalid format.
C7_MessageByKind ==
    lastEvent = "reader.onload resumed" =>
        LET o == lastOutcome
            res == lastResult
        IN
        /\ (o.kind = "text" /\ o.text.body = "empty") =>
              res.threw /\ IsSuffix(EmptyResponseMsg, res.msg)
        /\ (o.kind = "text" /\ o.text.body = "notjson") =>
              res.threw /\ res.msg = InvalidFormatMsg
        /\ o.kind = "reject" =>
              res.threw /\ res.msg = WrapperPrefix \o o.msg
        /\ o.kind = "undefinedText" =>
              res.threw /\ res.msg = WrapperPrefix \o TypeErrorMsg

\* What a decimal-comma amount with thousands separators denotes: digits in
\* groups separated by a space or a point, one comma, then the decimals.
Separators == {" ", "."}
DecimalComma(s) ==
    /\ Len(s) >= 3
    /\ \A i \in DOMAIN s : s[i] \in Digits \cup Separators \cup {","}
    /\ Cardinality({i \in DOMAIN s : s[i] = ","}) = 1
    /\ s[1] \in Digits
    /\ s[Len(s)] \in Digits
    /\ \A i \in DOMAIN s :
          s[i] \in Separators =>
              /\ s[i - 1] \in Digits /\ s[i + 1] \in Digits
              /\ \E j \in (i + 1)..Len(s) : s[j] = ","
    /\ \A i \in DOMAIN s : s[i] = "," => s[i - 1] \in Digits

Denotes(s) ==
    LET ds == SelectSeq(s, LAMBDA c : c \in Digits)
        comma == CHOOSE i \in DOMAIN s : s[i] = ","
    IN Num(DigitsValue(ds, 1, Len(ds)), Len(s) - comma)

AmountFields(row) == <<row.debit, row.credit>>

\* C8: every non-empty debit or credit string in decimal-comma format with
\* thousands separators is exported as the number it denotes.
C8_ExportedValueIsDenoted ==
    lastEvent = "handleDownloadExcel" =>
        \A i \in 1..Len(data.rows) : \A k \in 1..2 :
            LET s == AmountFields(data.rows[i])[k]
                c == sheet.rows[i][4 + k]
            IN (s # <<>> /\ DecimalComma(s)) =>
                  c.present /\ NumEq(c.n, Denotes(s))

\* C9: an empty debit or credit string leaves no cell (so neither a zero,
\* nor a numeric type, nor a number format); a non-empty one gives a
\* numeric cell with the format '#,##0.00'; no other cell is numeric or
\* formatted.
C9_EmptyStaysEmpty ==
    lastEvent = "handleDownloadExcel" =>
        \A i \in 1..Len(data.rows) :
            /\ \A k \in 1..2 :
                  LET s == AmountFields(data.rows[i])[k]
                      c == sheet.rows[i][4 + k]
                  IN IF s = <<>>
                       THEN ~c.present /\ c.t # "n" /\ c.z # NumberFormat
                       ELSE c.present /\ c.t = "n" /\ c.z = NumberFormat
            /\ \A j \in 1..4 :
                  sheet.rows[i][j].t # "n" /\ sheet.rows[i][j].z # NumberFormat

C9_Witness ==
    /\ lastEvent = "handleDownloadExcel"
    /\ \E i \in 1..Len(data.rows) :
          data.rows[i].debit = <<>> /\ data.rows[i].credit # <<>>
    /\ \E i \in 1..Len(data.rows) :
          data.rows[i].debit # <<>> /\ data.rows[i].credit = <<>>

C11_ExportReadOnlyIdempotent ==
    [][/\ lastEvent' = "handleDownloadExcel" =>
            /\ data' = data /\ error' = error
            /\ loading' = loading /\ fileName' = fileName
            /\ sheet'.written
            /\ exports # "none" => sheet' = sheet
       /\ (data.set /\ data'.set) => data'.rows = data.rows]_vars

C11_Witness ==
    /\ lastEvent = "handleDownloadExcel"
    /\ exports = "again"
    /\ sheet.written
    /\ Len(sheet.rows) = Len(data.rows)
    /\ sheet.cols = columnWidths

\* C12: rows are present only as the whole array one successful extraction
\* returned, never together with an error message or while loading; the
\* shell is in exactly one of Idle, Loading, Success and Error.
C12_NoPartialResults ==
    /\ data.set =>
          /\ ~error.set /\ ~loading
          /\ ~lastResult.threw
          /\ data.rows = lastResult.value
          /\ Len(data.rows) > 0
    /\ Cardinality({st \in {"Idle", "Loading", "Success", "Error"} :
                      \/ st = "Idle" /\ Idle
                      \/ st = "Loading" /\ Loading
                      \/ st = "Success" /\ Success
                      \/ st = "Error" /\ Error}) = 1
    /\ Loading => ~data.set /\ ~error.set

C12_Witness ==
    /\ Success
    /\ Len(data.rows) >= 2
    /\ seq >= 2
    /\ \E id \in 1..seq : readState[id] = "failed"

\* C13: a reset from Success or Error leaves the shell Idle: rows, error
\* message and file name cleared, loading false, and the previous rows
\* neither displayed nor exportable.
C13_ResetReturnsToIdle ==
    [][((Success \/ Error) /\ lastEvent' = "resetState") =>
          /\ Idle'
          /\ data' = NullData /\ error' = NullStr
          /\ fileName' = NullName /\ ~loading'
          /\ renderContent' = "dropzone"
          /\ ~canExport']_vars

C13_Witness ==
    /\ lastEvent = "resetState"
    /\ Idle
    /\ fileName = NullName
    /\ sheet.written
    /\ ~lastResult.threw

\* C14: when every read and every call completes, a shell that is Loading
\* eventually is in Success or Error (loading false again), and it is never
\* Loading with no read or call left to complete.
C14_LoadingEnds ==
    /\ Loading ~> (Success \/ Error)
    /\ [](Loading => inflight # {})

C14_Witness ==
    /\ lastEvent \in Callbacks
    /\ ~loading
    /\ Success \/ Error
    /\ inflight = {}
    /\ seq >= 2
    /\ \A id \in 1..seq : readState[id] # "pending"

====
